---- MODULE Spec2Model ----
(***************************************************************************)
(* Fishing-prediction system: the model manager (ml/models.py), the two    *)
(* serving paths (api/main.py, api/predict.py) and the chronological       *)
(* train/validation split, as state machines.                              *)
(*                                                                         *)
(* Time is counted in whole seconds (the filename convention drops the     *)
(* sub-second part).  Prediction values are counted in halves so that      *)
(* rounding to an integer is an actual conversion.                         *)
(***************************************************************************)
EXTENDS Integers, Sequences, FiniteSets, TLC

VARIABLES
    now,        \* wall clock, seconds
    files,      \* the model directory: filename -> [content, ctime]
    pred,       \* the AjiPredictor instance
    ret,        \* outcome of the last call on the predictor
    ready,      \* a fit() or load_model() of this instance has succeeded
    dirExists,  \* whether the models directory exists (service start)
    svc,        \* the serving process: which path started, its model
    resp,       \* the answer to the last prediction request
    job,        \* a save_model call whose cleanup is under way, step by step
    sheet,      \* the ledger: the rows of the worksheet, or unreachable
    out         \* the result of the last query on the ledger

vars == <<now, files, pred, ret, ready, dirExists, svc, resp, job, sheet, out>>

-----------------------------------------------------------------------------
(* Bounds *)

MaxTime == 2      \* clock values 0..MaxTime
MaxRows == 100    \* largest training set of the split specification
MaxSheetRows == 2 \* rows of a ledger
MaxCatch == 8     \* largest predicted and actual catch compared

-----------------------------------------------------------------------------
(* IEEE-754 double arithmetic of  int(len(X) * (1 - validation_split)).    *)
(* A double in [0, 2^14) is held exactly as an integer count of 2^-56,     *)
(* written as NLimbs little-endian limbs of LimbBits bits.                 *)

LimbBits == 14
LimbBase == 16384
NLimbs == 5
MantissaBits == 53

One == <<0, 0, 0, 0, 1>>

\* validation_split values, in percent.
Splits == {20, 30, 50}

\* The double nearest to p/100 (Python's literal 0.2, 0.3, 0.5).
DoubleOf(p) ==
    CASE p = 20 -> <<13108, 3276, 13107, 3276, 0>>   \* 0x1.999999999999ap-3
      [] p = 30 -> <<3276, 13107, 3276, 4915, 0>>    \* 0x1.3333333333333p-2
      [] p = 50 -> <<0, 0, 0, 8192, 0>>              \* 0x1p-1

RECURSIVE NormFrom(_, _, _)
NormFrom(s, i, c) ==
    IF i > Len(s) THEN <<>>
    ELSE LET v == s[i] + c
         IN <<v % LimbBase>> \o NormFrom(s, i + 1, v \div LimbBase)

Norm(s) == NormFrom(s, 1, 0)

Bit(s, j) == (s[(j \div LimbBits) + 1] \div (2 ^ (j % LimbBits))) % 2

BitLen(s) ==
    LET on == {j \in 0..(NLimbs * LimbBits - 1) : Bit(s, j) = 1}
    IN IF on = {} THEN 0 ELSE 1 + CHOOSE j \in on : \A o \in on : o <= j

ClearBelow(s, k) ==
    [i \in 1..NLimbs |->
        LET lo == (i - 1) * LimbBits
        IN IF lo + LimbBits <= k THEN 0
           ELSE IF lo >= k THEN s[i]
           ELSE (s[i] \div (2 ^ (k - lo))) * (2 ^ (k - lo))]

AddBit(s, k) ==
    Norm([i \in 1..NLimbs |->
        IF i = (k \div LimbBits) + 1 THEN s[i] + 2 ^ (k % LimbBits) ELSE s[i]])

\* Round to MantissaBits significant bits, ties to even.
RoundNearestEven(s) ==
    LET k == BitLen(s) - MantissaBits
    IN IF k <= 0 THEN s
       ELSE LET guard == Bit(s, k - 1) = 1
                sticky == \E j \in 0..(k - 2) : Bit(s, j) = 1
                odd == Bit(s, k) = 1
            IN IF guard /\ (sticky \/ odd) THEN AddBit(ClearBelow(s, k), k)
               ELSE ClearBelow(s, k)

FloatSub(a, b) == RoundNearestEven(Norm([i \in 1..NLimbs |-> a[i] - b[i]]))

FloatMulInt(n, a) == RoundNearestEven(Norm([i \in 1..NLimbs |-> n * a[i]]))

\* int(): truncation of a non-negative double.
IntOf(a) == a[NLimbs]

\* int(len(X) * (1 - validation_split)), tabulated once for the inputs used.
SplitTable ==
    [n \in 1..MaxRows |->
        [p \in Splits |-> IntOf(FloatMulInt(n, FloatSub(One, DoubleOf(p))))]]

\* train_size = int(len(X) * (1 - validation_split))
TrainSize(n, p) == SplitTable[n][p]

\* X.iloc[:train_size] and X.iloc[train_size:], as row positions 1..n
TrainRows(n, train_size) == [i \in 1..train_size |-> i]
ValRows(n, train_size) == [i \in 1..(n - train_size) |-> train_size + i]

-----------------------------------------------------------------------------
(* Values *)

Kinds == {"random_forest", "xgboost"}

\* The six feature columns in the order the Feature Builder emits them
\* (month, season code, weather code, water temperature, tide code, visitors).
StdCols == <<"month", "season", "weather", "temp", "tide", "visitors">>
SwappedCols == <<"temp", "season", "weather", "month", "tide", "visitors">>
ShortCols == <<"month", "season", "weather", "temp", "tide">>
NoCols == <<>>      \* feature_columns = None

\* A filename.  kind is the model kind of the prefix "aji_<kind>_" ("none":
\* the name does not start with such a prefix); parsable says whether the
\* last two "_" fields form a %Y%m%d_%H%M%S timestamp, stamp is that time.
DefaultName(kind, t) == [kind |-> kind, parsable |-> TRUE, stamp |-> t]
CustomName(kind) == [kind |-> kind, parsable |-> FALSE, stamp |-> 0]
OtherName == [kind |-> "none", parsable |-> FALSE, stamp |-> 0]
NoPath == [kind |-> "-", parsable |-> FALSE, stamp |-> 0]

Names ==
    {DefaultName(k, t) : k \in Kinds, t \in 0..MaxTime}
        \cup {CustomName(k) : k \in Kinds} \cup {OtherName}

\* Model objects: a regressor of a kind, unfitted (fit = 0) or fitted on
\* fit > 0 training rows of nfeat columns; or no predictor at all (None).
Regressor(kind, fit, nfeat) ==
    [cls |-> "regressor", kind |-> kind, fit |-> fit, nfeat |-> nfeat]
NoModel == [cls |-> "none", kind |-> "-", fit |-> 0, nfeat |-> 0]

EmptyHistory ==
    [model_type |-> "-", train_size |-> 0, val_size |-> 0,
     feature_columns |-> NoCols]

BundleKeys == <<"model", "model_type", "feature_columns", "training_history",
                "is_trained">>
AllKeys == {BundleKeys[i] : i \in 1..Len(BundleKeys)}

\* What a file holds: a dict with some of the bundle keys, a pickled object
\* that is no dict, or bytes that do not deserialize.
Bundle(p) ==
    [form |-> "dict", keys |-> AllKeys, model |-> p.model,
     model_type |-> p.model_type, feature_columns |-> p.feature_columns,
     training_history |-> p.training_history, is_trained |-> p.is_trained]

Corrupt ==
    [form |-> "corrupt", keys |-> {}, model |-> NoModel, model_type |-> "-",
     feature_columns |-> NoCols, training_history |-> EmptyHistory,
     is_trained |-> FALSE]

-----------------------------------------------------------------------------
(* AjiPredictor (ml/models.py) *)

\* __init__ and _initialize_model: an unfitted regressor of the kind.
NewPredictor(kind) ==
    [model_type |-> kind, model |-> Regressor(kind, 0, 0),
     feature_columns |-> NoCols, training_history |-> EmptyHistory,
     is_trained |-> FALSE]

MkRet(op, ok, err, path) ==
    [op |-> op, ok |-> ok, err |-> err, path |-> path, kept |-> {},
     deleted |-> {}, named |-> FALSE, handed |-> NoCols, out |-> 0, rows |-> 0,
     split |-> 0]

NoRet == MkRet("none", TRUE, "", NoPath)

\* fit(): the predictor after the call and whether it returned normally.
\* The regressor's fit raises on an empty training partition and its
\* predict raises on an empty validation partition.
FitResult(p, n, split, cols) ==
    LET train_size == TrainSize(n, split)
        val_size == n - train_size
        p1 == [p EXCEPT !.feature_columns = cols]
        p2 == [p1 EXCEPT !.model = Regressor(p.model.kind, train_size, Len(cols))]
        history == [model_type |-> p.model_type,
                    train_size |-> Len(TrainRows(n, train_size)),
                    val_size |-> Len(ValRows(n, train_size)),
                    feature_columns |-> cols]
    IN IF p.model.cls # "regressor" \/ train_size = 0
       THEN [ok |-> FALSE, pred |-> p1]
       ELSE IF val_size = 0
       THEN [ok |-> FALSE, pred |-> p2]
       ELSE [ok |-> TRUE,
             pred |-> [p2 EXCEPT !.training_history = history,
                                 !.is_trained = TRUE]]

\* The value of feature column col under condition set x.
FeatureValue(x, col) ==
    x + (CHOOSE i \in 1..Len(StdCols) : StdCols[i] = col)

\* self.model.predict(X) for one row: the fitted regressor as a function of
\* the vector it is handed, in halves of a fish; it can be negative.
RawPredict(m, x, handed) == m.fit * FeatureValue(x, handed[1]) - 11

\* np.maximum(predictions, 0)
\* Variant without the clip: the raw model output is returned.
Clip_Identity(v) == v

Clip(v) == IF v < 0 THEN 0 ELSE v

\* The vector predict() hands to the regressor: a DataFrame (named) whose
\* columns differ from the stored schema is re-indexed by the schema, which
\* raises KeyError when the schema is unset or one of its columns is absent;
\* an array is passed as is.
Reorder(p, X) ==
    IF X.named /\ X.cols # p.feature_columns
    THEN IF /\ p.feature_columns # NoCols
            /\ \A i \in 1..Len(p.feature_columns) :
                  \E j \in 1..Len(X.cols) : X.cols[j] = p.feature_columns[i]
         THEN [ok |-> TRUE, cols |-> p.feature_columns]
         ELSE [ok |-> FALSE, cols |-> NoCols]
    ELSE [ok |-> TRUE, cols |-> X.cols]

\* Whether the not-trained guard of predict() lets the call through.
TrainedGuard(p) == p.is_trained

\* predict(X)
PredictResult(p, X) ==
    IF ~TrainedGuard(p)
    THEN [MkRet("predict", FALSE, "NotTrained", NoPath) EXCEPT !.named = X.named]
    ELSE LET r == Reorder(p, X)
         IN IF ~r.ok
            THEN [MkRet("predict", FALSE, "KeyError", NoPath) EXCEPT !.named = X.named]
            ELSE IF p.model.cls # "regressor" \/ p.model.fit = 0
                    \/ Len(r.cols) # p.model.nfeat
            THEN [MkRet("predict", FALSE, "ModelError", NoPath)
                    EXCEPT !.named = X.named, !.handed = r.cols]
            ELSE [MkRet("predict", TRUE, "", NoPath)
                    EXCEPT !.named = X.named, !.handed = r.cols,
                           !.out = Clip(RawPredict(p.model, X.x, r.cols))]

\* predict_single(month, season, weather, temp, tide, visitors): the array
\* is assembled in the order of the arguments.
SingleInput(x) == [named |-> FALSE, cols |-> StdCols, x |-> x]

PredictSingleResult(p, x) ==
    [PredictResult(p, SingleInput(x)) EXCEPT !.op = "predict_single"]

-----------------------------------------------------------------------------
(* Persistence and retention (ml/models.py) *)

\* joblib.dump to a path: the file is created or replaced; its file time is
\* the time of the write.
WriteFile(fs, name, content, t) ==
    [nm \in DOMAIN fs \cup {name} |->
        IF nm = name THEN [content |-> content, ctime |-> t] ELSE fs[nm]]

RemoveFiles(fs, gone) == [nm \in DOMAIN fs \ gone |-> fs[nm]]

\* Variant whose pattern is aji_*.pkl.
GlobKind_AnyKind(fs, kind) == {nm \in DOMAIN fs : nm.kind \in Kinds}

\* glob("models/aji_<model_type>_*.pkl")
GlobKind(fs, kind) == {nm \in DOMAIN fs : nm.kind = kind}

\* The orders in which the directory listing can return a set of names.
Perms(S) ==
    {s \in [1..Cardinality(S) -> S] :
        \A i, j \in 1..Cardinality(S) : i # j => s[i] # s[j]}

Range(s) == {s[i] : i \in 1..Len(s)}

\* extract_datetime: the timestamp in the name, else the file time.
ExtractDatetime(fs, name) ==
    IF name.parsable THEN name.stamp ELSE fs[name].ctime

\* Where list.sort(key, reverse=True) puts x in an already sorted list:
\* after every element whose key is not smaller (the sort is stable).
InsertPos(sorted, x, fs) ==
    Cardinality({i \in 1..Len(sorted) :
        ExtractDatetime(fs, sorted[i]) >= ExtractDatetime(fs, x)})

RECURSIVE SortFrom(_, _, _, _)
SortFrom(listing, i, sorted, fs) ==
    IF i > Len(listing) THEN sorted
    ELSE LET pos == InsertPos(sorted, listing[i], fs)
         IN SortFrom(listing, i + 1,
                     SubSeq(sorted, 1, pos) \o <<listing[i]>>
                         \o SubSeq(sorted, pos + 1, Len(sorted)),
                     fs)

\* model_files.sort(key=extract_datetime, reverse=True)
\* Variant without reverse=True: oldest first.
SortNewestFirst_Ascending(listing, fs) ==
    LET d == SortFrom(listing, 1, <<>>, fs)
    IN [i \in 1..Len(d) |-> d[Len(d) + 1 - i]]

SortNewestFirst(listing, fs) == SortFrom(listing, 1, <<>>, fs)

FilesToKeep(sorted, keep_count) == SubSeq(sorted, 1, keep_count)

\* Variant that spares one file too many: sorted_files[keep_count + 1:]
FilesToDelete_OffByOne(sorted, keep_count) ==
    SubSeq(sorted, keep_count + 2, Len(sorted))

FilesToDelete(sorted, keep_count) == SubSeq(sorted, keep_count + 1, Len(sorted))

\* cleanup_old_models(keep_count) on a listing of the active kind's files.
CleanupResult(fs, listing, keep_count) ==
    IF Len(listing) <= keep_count
    THEN [files |-> fs, kept |-> Range(listing), deleted |-> {}]
    ELSE LET sorted == SortNewestFirst(listing, fs)
             gone == Range(FilesToDelete(sorted, keep_count))
         IN [files |-> RemoveFiles(fs, gone),
             kept |-> Range(FilesToKeep(sorted, keep_count)),
             deleted |-> {[name |-> nm, ctime |-> fs[nm].ctime] : nm \in gone}]

KeepCount == 2

\* load_model(filepath): the predictor after the call and the flag returned.
\* The bundle's fields are assigned one by one; a missing field raises after
\* the earlier ones were assigned.
RECURSIVE AssignFrom(_, _, _)
AssignFrom(p, c, i) ==
    IF i > Len(BundleKeys) THEN [done |-> TRUE, pred |-> p]
    ELSE IF BundleKeys[i] \notin c.keys THEN [done |-> FALSE, pred |-> p]
    ELSE AssignFrom([p EXCEPT ![BundleKeys[i]] = c[BundleKeys[i]]], c, i + 1)

LoadResult(p, fs, path) ==
    IF path \notin DOMAIN fs THEN [ok |-> FALSE, pred |-> p]
    ELSE LET c == fs[path].content
         IN IF c.form # "dict" THEN [ok |-> FALSE, pred |-> p]
            ELSE LET a == AssignFrom(p, c, 1)
                 IN [ok |-> a.done /\ a.pred.feature_columns # NoCols,
                     pred |-> a.pred]

-----------------------------------------------------------------------------
(* Inputs *)

\* Files that reach the model directory from outside the program.
PartialBundle ==
    [form |-> "dict", keys |-> {"model", "feature_columns"},
     model |-> Regressor("random_forest", 4, 6), model_type |-> "-",
     feature_columns |-> StdCols, training_history |-> EmptyHistory,
     is_trained |-> FALSE]

NoPredictBundle ==
    [form |-> "dict", keys |-> AllKeys, model |-> NoModel,
     model_type |-> "random_forest", feature_columns |-> StdCols,
     training_history |-> EmptyHistory, is_trained |-> TRUE]

PickledObject ==
    [form |-> "object", keys |-> {}, model |-> Regressor("random_forest", 4, 6),
     model_type |-> "-", feature_columns |-> NoCols,
     training_history |-> EmptyHistory, is_trained |-> FALSE]

NoSchemaBundle ==
    [form |-> "dict", keys |-> AllKeys, model |-> Regressor("random_forest", 4, 6),
     model_type |-> "random_forest", feature_columns |-> NoCols,
     training_history |-> EmptyHistory, is_trained |-> TRUE]

\* An artifact saved by another training run.
SavedBundle ==
    [form |-> "dict", keys |-> AllKeys, model |-> Regressor("random_forest", 8, 6),
     model_type |-> "random_forest", feature_columns |-> SwappedCols,
     training_history |->
        [model_type |-> "random_forest", train_size |-> 8, val_size |-> 2,
         feature_columns |-> SwappedCols],
     is_trained |-> TRUE]

PlacedContents ==
    {Corrupt, PartialBundle, NoPredictBundle, NoSchemaBundle, PickledObject,
     SavedBundle}

\* Condition sets a prediction is asked for.
Conditions == {0, 1}

FitRows == {1, 5}
FitCols == {StdCols, SwappedCols}

PredictInputs ==
    {[named |-> nd, cols |-> c, x |-> x] :
        nd \in BOOLEAN, c \in {StdCols, SwappedCols}, x \in Conditions}
    \cup {[named |-> TRUE, cols |-> ShortCols, x |-> 0]}

EmptyDir == [nm \in {} |-> [content |-> Corrupt, ctime |-> 0]]

\* svc: the serving process. path says which serving module runs ("main" for
\* api/main.py, "predict" for api/predict.py); has_model says whether its
\* predictor reference is set; loaded names the artifact it loaded.
NoService ==
    [path |-> "none", started |-> FALSE, has_model |-> FALSE,
     predictor |-> NewPredictor("-"), loaded |-> NoPath,
     load_failed |-> FALSE, fallback |-> FALSE]

\* resp: the answer to the last prediction request; value is what the model
\* manager (or the model) returned, catch_count what the interface reports.
NoResp == [kind |-> "none", via |-> "none", value |-> 0, catch_count |-> 0]

-----------------------------------------------------------------------------
(* The model manager as a state machine *)

\* job: pc is the position of the save in its cleanup; listing is what glob
\* returned, sorted the listing after the sort.
NoJob == [pc |-> "idle", path |-> NoPath, listing |-> <<>>, sorted |-> <<>>]

\* No worksheet is read and no query has been answered.
NoSheet == [reachable |-> FALSE, rows |-> <<>>]
NoOut ==
    [op |-> "none", status |-> "-", averages |-> <<>>, total_records |-> 0,
     estimated_visitors |-> [null |-> TRUE, v |-> 0], data_count |-> 0,
     error |-> FALSE]

LedgerIdle == UNCHANGED <<sheet, out>>

Init ==
    /\ now = 0
    /\ files = EmptyDir
    /\ pred = NewPredictor("xgboost")
    /\ ret = NoRet
    /\ ready = FALSE
    /\ dirExists = TRUE
    /\ svc = NoService
    /\ resp = NoResp
    /\ job = NoJob
    /\ sheet = NoSheet
    /\ out = NoOut

ServiceIdle == UNCHANGED <<dirExists, svc, resp, job>> /\ LedgerIdle

Tick ==
    /\ now < MaxTime
    /\ now' = now + 1
    /\ UNCHANGED <<files, pred, ret, ready>>
    /\ ServiceIdle

\* AjiPredictor(model_type)
Construct(kind) ==
    /\ pred' = NewPredictor(kind)
    /\ ready' = FALSE
    /\ ret' = MkRet("init", TRUE, "", NoPath)
    /\ UNCHANGED <<now, files>>
    /\ ServiceIdle

\* fit(X, y, validation_split) on n rows with the given columns
Fit(n, split, cols) ==
    LET r == FitResult(pred, n, split, cols)
    IN /\ pred' = r.pred
       /\ ready' = (ready \/ r.ok)
       /\ ret' = [MkRet("fit", r.ok, IF r.ok THEN "" ELSE "FitError", NoPath)
                    EXCEPT !.rows = n, !.split = split]
       /\ UNCHANGED <<now, files>>
       /\ ServiceIdle

\* predict(X)
Predict(X) ==
    /\ ret' = PredictResult(pred, X)
    /\ UNCHANGED <<now, files, pred, ready>>
    /\ ServiceIdle

\* predict_single(...)
PredictSingle(x) ==
    /\ ret' = PredictSingleResult(pred, x)
    /\ UNCHANGED <<now, files, pred, ready>>
    /\ ServiceIdle

\* save_model(filename): custom says whether the caller gave a filename.
SaveModel(custom, filename) ==
    IF ~pred.is_trained
    THEN /\ ret' = MkRet("save", FALSE, "NotTrained", NoPath)
         /\ UNCHANGED <<now, files, pred, ready>>
         /\ ServiceIdle
    ELSE LET path == IF custom THEN filename
                     ELSE DefaultName(pred.model_type, now)
             written == WriteFile(files, path, Bundle(pred), now)
         IN \E listing \in Perms(GlobKind(written, pred.model_type)) :
                LET c == CleanupResult(written, listing, KeepCount)
                IN /\ files' = c.files
                   /\ ret' = [MkRet("save", TRUE, "", path)
                                EXCEPT !.kept = c.kept, !.deleted = c.deleted]
                   /\ UNCHANGED <<now, pred, ready>>
                   /\ ServiceIdle

\* load_model(filepath)
LoadModel(path) ==
    LET r == LoadResult(pred, files, path)
    IN /\ pred' = r.pred
       /\ ready' = (ready \/ r.ok)
       /\ ret' = MkRet("load", r.ok, IF r.ok THEN "" ELSE "LoadError", path)
       /\ UNCHANGED <<now, files>>
       /\ ServiceIdle

\* A file written into the model directory by something else.
PlaceFile(content) ==
    /\ files' = WriteFile(files, OtherName, content, now)
    /\ UNCHANGED <<now, pred, ret, ready>>
    /\ ServiceIdle

\* Filenames a caller passes to save_model.
CallerNames(kind) == {DefaultName(kind, 0), CustomName(kind)}

\* Training, loading and prediction.
Next ==
    \/ \E kind \in Kinds : Construct(kind)
    \/ \E n \in FitRows, cols \in FitCols : Fit(n, 20, cols)
    \/ \E X \in PredictInputs : Predict(X)
    \/ \E x \in Conditions : PredictSingle(x)
    \/ LoadModel(OtherName)
    \/ \E content \in PlacedContents : PlaceFile(content)

Spec == Init /\ [][Next]_vars

-----------------------------------------------------------------------------
(* Serving: service start and prediction requests *)

\* Python compares filenames as strings: "aji_random_forest_..." sorts before
\* "aji_xgboost_...", and within a kind a digit stamp sorts before a word.
KindRank(kind) == IF kind = "random_forest" THEN 0 ELSE 1

LexLeq(a, b) ==
    \/ KindRank(a.kind) < KindRank(b.kind)
    \/ /\ a.kind = b.kind
       /\ \/ ~a.parsable /\ ~b.parsable
          \/ a.parsable /\ ~b.parsable
          \/ a.parsable /\ b.parsable /\ a.stamp <= b.stamp

\* sorted(names)[-1], which is also sorted(names, reverse=True)[0]
LexLast(S) == CHOOSE m \in S : \A o \in S : LexLeq(o, m)

\* round() of a value held in halves: ties go to the even integer.
RoundHalfEven(h) ==
    LET q == h \div 2
    IN IF h % 2 = 0 THEN q ELSE IF q % 2 = 0 THEN q ELSE q + 1

Max0(v) == IF v > 0 THEN v ELSE 0

\* _create_fallback_model: a random forest fit on 5 dummy rows.
FallbackPredictor ==
    [NewPredictor("-") EXCEPT !.model = Regressor("random_forest", 5, 6),
                              !.feature_columns = StdCols]

Started(path, has_model, predictor, loaded, load_failed, fallback) ==
    [path |-> path, started |-> TRUE, has_model |-> has_model,
     predictor |-> predictor, loaded |-> loaded, load_failed |-> load_failed,
     fallback |-> fallback]

\* api/main.py startup_event
StartupResult(fs, dir) ==
    LET model_files == IF dir THEN GlobKind(fs, "random_forest") ELSE {}
        aji_predictor == NewPredictor("random_forest")
    IN IF model_files = {}
       THEN Started("main", FALSE, aji_predictor, NoPath, TRUE, FALSE)
       ELSE LET latest_model == LexLast(model_files)
                r == LoadResult(aji_predictor, fs, latest_model)
            IN IF r.ok
               THEN Started("main", TRUE, r.pred, latest_model, FALSE, FALSE)
               ELSE Started("main", FALSE, r.pred, NoPath, TRUE, FALSE)

\* api/predict.py FishingPredictor.load_model
FishingLoadResult(fs, dir) ==
    LET aji_models == {nm \in DOMAIN fs : nm.kind \in Kinds}
        fallback == Started("predict", TRUE, FallbackPredictor, NoPath, TRUE, TRUE)
    IN IF ~dir \/ aji_models = {}
       THEN fallback
       ELSE LET latest_model == LexLast(aji_models)
                model_data == fs[latest_model].content
                model == IF model_data.form = "dict" /\ "model" \notin model_data.keys
                         THEN NoModel ELSE model_data.model
                cols == IF model_data.form = "dict"
                        THEN IF "feature_columns" \in model_data.keys
                             THEN model_data.feature_columns ELSE NoCols
                        ELSE StdCols
            IN IF model_data.form = "corrupt" \/ model.cls # "regressor"
               THEN fallback
               ELSE Started("predict", TRUE,
                            [NewPredictor("-") EXCEPT !.model = model,
                                                      !.feature_columns = cols],
                            latest_model, FALSE, FALSE)

\* api/main.py predict_aji_catch
MainResponse(s, x) ==
    IF ~s.has_model \/ ~s.predictor.is_trained
    THEN [NoResp EXCEPT !.kind = "unavailable", !.via = "main"]
    ELSE LET r == PredictSingleResult(s.predictor, x)
         IN IF r.ok
            THEN [kind |-> "prediction", via |-> "main", value |-> r.out,
                  catch_count |-> RoundHalfEven(r.out)]
            ELSE [NoResp EXCEPT !.kind = "error", !.via = "main"]

\* api/predict.py predict_aji
FishingResponse(s, x) ==
    LET m == s.predictor.model
    IN IF ~s.has_model \/ m.cls # "regressor" \/ m.fit = 0 \/ m.nfeat # Len(StdCols)
       THEN [NoResp EXCEPT !.kind = "error", !.via = "predict"]
       ELSE LET prediction == RawPredict(m, x, StdCols)
            IN [kind |-> "prediction", via |-> "predict", value |-> prediction,
                catch_count |-> Max0(RoundHalfEven(prediction))]

\* Saves over time, the retention policy, and the load of what was saved.
LoadSaved ==
    /\ ret.op = "save"
    /\ ret.ok
    /\ LoadModel(ret.path)

\* The manager with training, loading and saving together.
NextLifecycle ==
    \/ \E kind \in Kinds : Construct(kind)
    \/ \E n \in FitRows, cols \in FitCols : Fit(n, 20, cols)
    \/ LoadModel(OtherName)
    \/ \E content \in PlacedContents : PlaceFile(content)
    \/ SaveModel(FALSE, NoPath)

SpecLifecycle == Init /\ [][NextLifecycle]_vars

NextRetention ==
    \/ Tick
    \/ \E kind \in Kinds : Construct(kind)
    \/ Fit(5, 20, StdCols)
    \/ SaveModel(FALSE, NoPath)
    \/ \E filename \in CallerNames(pred.model_type) : SaveModel(TRUE, filename)
    \/ LoadSaved

SpecRetention == Init /\ [][NextRetention]_vars

\* Model directories a service can start on: at most KeepCount artifacts per
\* kind under default names, each one a saved model, a damaged file, or a
\* bundle without a model.
ServeNames == {DefaultName(k, t) : k \in Kinds, t \in 0..MaxTime}

ArtifactOf(kind) ==
    Bundle(FitResult(NewPredictor(kind), 10, 20, StdCols).pred)

ContentFor(name, tag) ==
    CASE tag = "artifact" -> ArtifactOf(name.kind)
      [] tag = "corrupt" -> Corrupt
      [] tag = "nomodel" -> NoPredictBundle

ServeDirs ==
    LET sets == {D \in SUBSET ServeNames :
                    \A k \in Kinds : Cardinality({nm \in D : nm.kind = k}) <= KeepCount}
    IN UNION {{[nm \in D |-> [content |-> ContentFor(nm, tags[nm]), ctime |-> nm.stamp]] :
                  tags \in [D -> {"artifact", "corrupt", "nomodel"}]} : D \in sets}

InitServe ==
    /\ now = 0
    /\ pred = NewPredictor("random_forest")
    /\ ret = NoRet
    /\ ready = FALSE
    /\ svc = NoService
    /\ resp = NoResp
    /\ job = NoJob
    /\ sheet = NoSheet
    /\ out = NoOut
    /\ \/ dirExists = FALSE /\ files = EmptyDir
       \/ dirExists = TRUE /\ files \in ServeDirs

ManagerIdle == UNCHANGED <<now, files, pred, ret, ready, job>> /\ LedgerIdle

\* api/main.py is started; constructing the AjiPredictor creates the directory.
StartMain ==
    /\ ~svc.started
    /\ svc' = StartupResult(files, dirExists)
    /\ dirExists' = TRUE
    /\ UNCHANGED resp
    /\ ManagerIdle

\* api/predict.py is started (the FishingPredictor is constructed).
StartFishing ==
    /\ ~svc.started
    /\ svc' = FishingLoadResult(files, dirExists)
    /\ UNCHANGED <<dirExists, resp>>
    /\ ManagerIdle

\* POST /api/predict-aji on api/main.py
RequestMain(x) ==
    /\ svc.started
    /\ svc.path = "main"
    /\ resp' = MainResponse(svc, x)
    /\ UNCHANGED <<dirExists, svc>>
    /\ ManagerIdle

\* predict_aji on api/predict.py
RequestFishing(x) ==
    /\ svc.started
    /\ svc.path = "predict"
    /\ resp' = FishingResponse(svc, x)
    /\ UNCHANGED <<dirExists, svc>>
    /\ ManagerIdle

NextServe ==
    \/ StartMain
    \/ StartFishing
    \/ \E x \in Conditions : RequestMain(x)
    \/ \E x \in Conditions : RequestFishing(x)

SpecServe == InitServe /\ [][NextServe]_vars

\* Training runs over every row count and validation split.
NextFit ==
    \/ \E kind \in Kinds : Construct(kind)
    \/ \E n \in 1..MaxRows, split \in Splits : Fit(n, split, StdCols)

SpecFit == Init /\ [][NextFit]_vars

-----------------------------------------------------------------------------
(* A save whose cleanup runs next to another process *)

\* save_model up to glob.glob(pattern) in cleanup_old_models: the artifact is
\* written and the directory listed; a short listing returns at once.
BeginSave(custom, filename) ==
    /\ job.pc = "idle"
    /\ pred.is_trained
    /\ LET path == IF custom THEN filename ELSE DefaultName(pred.model_type, now)
           written == WriteFile(files, path, Bundle(pred), now)
       IN /\ files' = written
          /\ \E listing \in Perms(GlobKind(written, pred.model_type)) :
                IF Len(listing) <= KeepCount
                THEN /\ job' = NoJob
                     /\ ret' = [MkRet("save", TRUE, "", path)
                                  EXCEPT !.kept = Range(listing)]
                ELSE /\ job' = [pc |-> "listed", path |-> path,
                                listing |-> listing, sorted |-> <<>>]
                     /\ ret' = MkRet("saving", TRUE, "", path)
    /\ UNCHANGED <<now, pred, ready, dirExists, svc, resp>>
    /\ LedgerIdle

\* model_files.sort(key=extract_datetime, reverse=True): the key of a name
\* without a stamp reads the file time, which raises when the file is gone;
\* the exception leaves cleanup_old_models and save_model.
SortStep ==
    /\ job.pc = "listed"
    /\ IF \E i \in 1..Len(job.listing) :
             ~job.listing[i].parsable /\ job.listing[i] \notin DOMAIN files
       THEN /\ job' = NoJob
            /\ ret' = MkRet("save", FALSE, "FileNotFoundError", job.path)
       ELSE /\ job' = [job EXCEPT !.pc = "sorted",
                                  !.sorted = SortNewestFirst(job.listing, files)]
            /\ UNCHANGED ret
    /\ UNCHANGED <<now, files, pred, ready, dirExists, svc, resp>>
    /\ LedgerIdle

\* The os.remove loop (a failed removal is caught) and the return of save_model.
DeleteStep ==
    /\ job.pc = "sorted"
    /\ LET gone == Range(FilesToDelete(job.sorted, KeepCount))
       IN /\ files' = RemoveFiles(files, gone)
          /\ ret' = [MkRet("save", TRUE, "", job.path)
                       EXCEPT !.kept = Range(FilesToKeep(job.sorted, KeepCount)),
                              !.deleted = {[name |-> nm, ctime |-> files[nm].ctime] :
                                              nm \in gone \cap DOMAIN files}]
    /\ job' = NoJob
    /\ UNCHANGED <<now, pred, ready, dirExists, svc, resp>>
    /\ LedgerIdle

\* Another process removes an artifact of the active kind while the cleanup
\* is between its listing and its deletions.
OtherRemoves(name) ==
    /\ job.pc \in {"listed", "sorted"}
    /\ name \in DOMAIN files
    /\ name.kind = pred.model_type
    /\ files' = RemoveFiles(files, {name})
    /\ UNCHANGED <<now, pred, ret, ready, dirExists, svc, resp, job>>
    /\ LedgerIdle

NextRace ==
    \/ job.pc = "idle" /\ Tick
    \/ job.pc = "idle" /\ Fit(5, 20, StdCols)
    \/ BeginSave(FALSE, NoPath)
    \/ \E filename \in CallerNames(pred.model_type) : BeginSave(TRUE, filename)
    \/ SortStep
    \/ DeleteStep
    \/ \E name \in Names : OtherRemoves(name)

SpecRace == Init /\ [][NextRace]_vars

-----------------------------------------------------------------------------
(* The ledger and the visitor statistics (api/visitor_analysis.py) *)

\* A cell of the worksheet that holds a number with a unit ("174名", "11.0℃"):
\* has says whether the text contains a number at all, neg whether a minus
\* sign precedes it, n the number.
Num(n) == [has |-> TRUE, neg |-> FALSE, n |-> n]
Minus(n) == [has |-> TRUE, neg |-> TRUE, n |-> n]
NoNum == [has |-> FALSE, neg |-> FALSE, n |-> 0]

\* A value that may be missing (NaN, NaT, None).
Null == [null |-> TRUE, v |-> 0]
Val(v) == [null |-> FALSE, v |-> v]

\* A row of the worksheet.  date is Val(day number), day 0 being a Monday, or
\* Null for a cell that is no date; weather and tide are the Japanese words,
\* romanised; species is "" for a blank cell; catch is Val(number), or Null
\* for a cell that is no number.
Row(date, weather, visitors) ==
    [date |-> date, weather |-> weather, visitors |-> visitors,
     species |-> "aji", catch |-> Val(0), temp |-> Num(20), tide |-> "oshio"]

WeatherTypes == <<"sunny", "cloudy", "rainy", "snowy">>
WeekdayTypes ==
    <<"monday", "tuesday", "wednesday", "thursday", "friday", "saturday", "sunday">>

\* weekday_names[date.dayofweek]
WeekdayName(day) == WeekdayTypes[(day % 7) + 1]

\* Weather texts, romanised: hare 晴れ, kumori 曇り, ame 雨, yuki 雪,
\* kaisei 快晴, usugumori 薄曇り, kosame 小雨, ooame 大雨, boufuuu 暴風雨,
\* nochi のち (then), tokidoki 時々 (at times), ichiji 一時 (for a while);
\* sei 晴 and don 曇 are the single characters.
\* self.weather_mapping of the visitor analyzer, in the order of the table.
WeatherMapping ==
    ("hare" :> "sunny") @@ ("kumori" :> "cloudy") @@ ("ame" :> "rainy")
    @@ ("yuki" :> "snowy") @@ ("kaisei" :> "sunny") @@ ("usugumori" :> "cloudy")
    @@ ("kosame" :> "rainy") @@ ("ooame" :> "rainy") @@ ("boufuuu" :> "rainy")
    @@ ("kumori tokidoki hare" :> "cloudy")
    @@ ("hare nochi kumori" :> "sunny")
    @@ ("kumori nochi ame" :> "rainy")
    @@ ("ame nochi hare" :> "sunny")
    @@ ("ame nochi kumori" :> "cloudy")
    @@ ("kumori nochi hare ichiji ame" :> "cloudy")
    @@ ("kumori nochi hare" :> "sunny")
    @@ ("ame ichiji kumori" :> "rainy")
    @@ ("ame tokidoki kumori" :> "rainy")
    @@ ("ame nochi kumori tokidoki hare" :> "cloudy")
    @@ ("hare nochi ame" :> "rainy")
    @@ ("kumori tokidoki ame" :> "rainy")

\* Variant that leaves an unmapped weather word as its own category.
WeatherEnglish_Unmapped(w) ==
    IF w \in DOMAIN WeatherMapping THEN WeatherMapping[w] ELSE "other"

\* Variant without the default for a text the table does not hold.
WeatherEnglish_NoDefault(w) ==
    IF w \in DOMAIN WeatherMapping THEN WeatherMapping[w] ELSE "nan"

\* df['天気'].map(self.weather_mapping), and fillna('cloudy') for a text the
\* table does not hold
WeatherEnglish(w) ==
    IF w \in DOMAIN WeatherMapping THEN WeatherMapping[w] ELSE "cloudy"

\* pd.to_numeric of the visitor text with the unit removed
VisitorNumber(v) == IF ~v.has THEN Null ELSE IF v.neg THEN Val(0 - v.n) ELSE Val(v.n)

VisitorFloor == 0
VisitorCeiling == 2000

\* _clean_data on one row: the cleaned row, or nothing when it is dropped.
CleanRow(r) ==
    LET v == VisitorNumber(r.visitors)
    IN IF r.date.null \/ v.null THEN <<>>
       ELSE IF v.v < VisitorFloor \/ v.v > VisitorCeiling THEN <<>>
       ELSE <<[weekday |-> WeekdayName(r.date.v),
               weather |-> WeatherEnglish(r.weather),
               visitors |-> v.v, date |-> r.date.v]>>

RECURSIVE CleanFrom(_, _)
CleanFrom(rows, i) ==
    IF i > Len(rows) THEN <<>>
    ELSE CleanRow(rows[i]) \o CleanFrom(rows, i + 1)

\* fetch_latest_data: an unreachable ledger yields an empty frame.
FetchLatestData(sh) == IF sh.reachable THEN CleanFrom(sh.rows, 1) ELSE <<>>

\* a / b rounded to the nearest integer, ties to the even one (round(x, 1)
\* on a value counted in tenths).
RoundDiv(a, b) ==
    LET q == a \div b
        r == a % b
    IN IF 2 * r < b THEN q
       ELSE IF 2 * r > b THEN q + 1
       ELSE IF q % 2 = 0 THEN q ELSE q + 1

\* The 28 patterns in the order of the two nested loops.
Cells == [k \in 1..(Len(WeatherTypes) * Len(WeekdayTypes)) |->
            [weather |-> WeatherTypes[((k - 1) \div Len(WeekdayTypes)) + 1],
             weekday |-> WeekdayTypes[((k - 1) % Len(WeekdayTypes)) + 1]]]

\* weekday_factors in hundredths, weather_factors in tenths
WeekdayFactor == [monday |-> 80, tuesday |-> 85, wednesday |-> 90, thursday |-> 95,
                  friday |-> 100, saturday |-> 130, sunday |-> 125]
WeatherFactor == [sunny |-> 11, cloudy |-> 10, rainy |-> 7, snowy |-> 5]

\* The global baseline, in tenths of a visitor.
BaseAverage == 3000

\* round(base_avg * weekday_factor * weather_factor, 1) in tenths, where
\* base_avg is total / n tenths.
Estimated(total, n, weather, weekday) ==
    RoundDiv(total * WeekdayFactor[weekday] * WeatherFactor[weather], n * 1000)

\* The rows of a cleaned frame that fall in a pattern.
InCell(df, cell) ==
    {i \in 1..Len(df) : df[i].weather = cell.weather /\ df[i].weekday = cell.weekday}

RECURSIVE SumVisitors(_, _)
SumVisitors(df, I) ==
    IF I = {} THEN 0
    ELSE LET i == CHOOSE j \in I : TRUE
         IN df[i].visitors + SumVisitors(df, I \ {i})

RECURSIVE SumAverages(_, _)
SumAverages(averages, S) ==
    IF S = {} THEN 0
    ELSE LET k == CHOOSE j \in S : TRUE
         IN averages[k].average + SumAverages(averages, S \ {k})

\* _estimate_missing_pattern(weather, weekday, existing_averages):
\* existing_averages holds the patterns filled so far, the first `filled`.
EstimateMissingPattern(cell, averages, filled) ==
    LET same == {k \in 1..filled :
                    Cells[k].weather = cell.weather /\ averages[k].count > 0}
    IN IF same # {}
       THEN Estimated(SumAverages(averages, same), Cardinality(same),
                      cell.weather, cell.weekday)
       ELSE Estimated(BaseAverage, 1, cell.weather, cell.weekday)

\* The loop over the patterns: averages grows one pattern at a time.
RECURSIVE AveragesFrom(_, _, _)
AveragesFrom(df, averages, k) ==
    IF k > Len(Cells) THEN averages
    ELSE LET I == InCell(df, Cells[k])
             entry == IF I # {}
                      THEN [average |-> RoundDiv(10 * SumVisitors(df, I), Cardinality(I)),
                            count |-> Cardinality(I), estimated |-> FALSE]
                      ELSE [average |-> EstimateMissingPattern(Cells[k], averages, k - 1),
                            count |-> 0, estimated |-> TRUE]
         IN AveragesFrom(df, Append(averages, entry), k + 1)

\* _get_fallback_averages
FallbackAverages ==
    [op |-> "averages", status |-> "error", averages |-> <<>>, total_records |-> 0,
     estimated_visitors |-> Null, data_count |-> 0, error |-> FALSE]

\* calculate_visitor_averages
VisitorAverages(sh) ==
    LET df == FetchLatestData(sh)
    IN IF df = <<>> THEN FallbackAverages
       ELSE [FallbackAverages EXCEPT !.status = "success",
                                     !.averages = AveragesFrom(df, <<>>, 1),
                                     !.total_records = Len(df)]

\* The pattern key weather_weekday as an index into Cells, 0 when the
\* weather is none of the four types.
CellKey(weather, weekday) ==
    IF \E k \in 1..Len(Cells) : Cells[k] = [weather |-> weather, weekday |-> weekday]
    THEN CHOOSE k \in 1..Len(Cells) : Cells[k] = [weather |-> weather, weekday |-> weekday]
    ELSE 0

\* get_visitor_estimate(date, weather) for a well-formed date
VisitorEstimate(sh, day, weather) ==
    LET averages_data == VisitorAverages(sh)
        key == CellKey(weather, WeekdayName(day))
        pattern_data == IF key \in 1..Len(averages_data.averages)
                        THEN averages_data.averages[key]
                        ELSE [average |-> BaseAverage, count |-> 0]
    IN [FallbackAverages EXCEPT !.op = "estimate", !.status = "-",
                                !.estimated_visitors = Val(pattern_data.average),
                                !.data_count = pattern_data.count]

\* Ledgers the visitor statistics are computed on: up to MaxSheetRows rows,
\* each with a date or none, a mapped or unmapped weather word and a visitor
\* text with a number in range, out of range, negative, or no number.
VisitorDates == <<Val(0), Val(1), Null>>
VisitorWeathers == <<"hare", "kiri">>
VisitorTexts == <<Num(100), Num(251), Num(2001), Minus(5), NoNum>>

VisitorRow(c) ==
    Row(VisitorDates[(c % 3) + 1], VisitorWeathers[((c \div 3) % 2) + 1],
        VisitorTexts[(c \div 6) + 1])

\* Row sequences over a universe of rows, in nondecreasing order of position.
SheetsOver(universe, maxRows) ==
    UNION {{[reachable |-> TRUE, rows |-> [j \in 1..n |-> universe[idx[j]]]] :
               idx \in {f \in [1..n -> 1..Len(universe)] :
                           \A j \in 1..(n - 1) : f[j] <= f[j + 1]}} :
           n \in 0..maxRows}

VisitorRows == [c \in 1..30 |-> VisitorRow(c - 1)]

VisitorSheets == SheetsOver(VisitorRows, MaxSheetRows) \cup {NoSheet}

InitVisitors ==
    /\ now = 0
    /\ files = EmptyDir
    /\ pred = NewPredictor("xgboost")
    /\ ret = NoRet
    /\ ready = FALSE
    /\ dirExists = TRUE
    /\ svc = NoService
    /\ resp = NoResp
    /\ job = NoJob
    /\ out = NoOut
    /\ sheet \in VisitorSheets

ModelsIdle == UNCHANGED <<now, files, pred, ret, ready, dirExists, svc, resp, job>>

\* GET of the visitor averages
CalculateVisitorAverages ==
    /\ out' = VisitorAverages(sheet)
    /\ UNCHANGED sheet
    /\ ModelsIdle

\* GET of the visitor estimate for a date and a weather
GetVisitorEstimate(day, weather) ==
    /\ out' = VisitorEstimate(sheet, day, weather)
    /\ UNCHANGED sheet
    /\ ModelsIdle

\* Estimates asked for: a Monday of a known weather type, a Tuesday of a
\* weather that is none of the four types.
EstimateQueries == {<<0, "sunny">>, <<1, "foggy">>}

NextVisitors ==
    \/ CalculateVisitorAverages
    \/ \E q \in EstimateQueries : GetVisitorEstimate(q[1], q[2])

SpecVisitors == InitVisitors /\ [][NextVisitors]_vars

-----------------------------------------------------------------------------
(* The historical query (api/historical.py) *)

\* str.extract(r'(\d+)'): the digits of the text, without a sign.
ExtractDigits(t) == IF t.has THEN Val(t.n) ELSE Null

\* load_fishing_data on one row: the normalized record, with the row's
\* position as its index label, or nothing when the row is dropped.  A blank
\* species cell is the empty string, which dropna does not drop.
NormalizeRow(rows, i) ==
    LET r == rows[i]
    IN IF r.date.null \/ r.catch.null THEN <<>>
       ELSE IF ~(r.catch.v >= 0) THEN <<>>
       ELSE <<[index |-> i, date |-> r.date.v, species |-> r.species,
               catch |-> r.catch.v, weather |-> r.weather, tide |-> r.tide,
               temp |-> ExtractDigits(r.temp),
               visitors |-> ExtractDigits(r.visitors)]>>

RECURSIVE NormalizeFrom(_, _)
NormalizeFrom(rows, i) ==
    IF i > Len(rows) THEN <<>>
    ELSE NormalizeRow(rows, i) \o NormalizeFrom(rows, i + 1)

\* load_fishing_data: raises when the ledger cannot be read or is empty, and
\* when astype(int) meets a visitor text without digits.
LoadFishingData(sh) ==
    IF ~sh.reachable \/ sh.rows = <<>> THEN [ok |-> FALSE, df |-> <<>>]
    ELSE IF \E i \in 1..Len(sh.rows) : ExtractDigits(sh.rows[i].visitors).null
    THEN [ok |-> FALSE, df |-> <<>>]
    ELSE [ok |-> TRUE, df |-> NormalizeFrom(sh.rows, 1)]

\* df[mask]: the rows that satisfy keep, in their order.
RECURSIVE SelectFrom(_, _, _)
SelectFrom(df, keep, i) ==
    IF i > Len(df) THEN <<>>
    ELSE (IF keep[i] THEN <<df[i]>> ELSE <<>>) \o SelectFrom(df, keep, i + 1)

Select(df, keep) == SelectFrom(df, keep, 1)

\* "all" in any letter case, among the spellings asked for.
LowerCase(fish) == IF fish \in {"all", "ALL", "All"} THEN "all" ELSE fish

\* Variant whose end date is exclusive.
EndDateFilter_Exclusive(df, q) ==
    IF q.end_date.null THEN df
    ELSE Select(df, [i \in 1..Len(df) |-> df[i].date < q.end_date.v])

FishFilter(df, q) ==
    IF q.fish # "" /\ LowerCase(q.fish) # "all"
    THEN Select(df, [i \in 1..Len(df) |-> df[i].species = q.fish])
    ELSE df

StartDateFilter(df, q) ==
    IF q.start_date.null THEN df
    ELSE Select(df, [i \in 1..Len(df) |-> df[i].date >= q.start_date.v])

EndDateFilter(df, q) ==
    IF q.end_date.null THEN df
    ELSE Select(df, [i \in 1..Len(df) |-> df[i].date <= q.end_date.v])

WeatherFilter(df, q) ==
    IF q.weather = "" THEN df
    ELSE Select(df, [i \in 1..Len(df) |-> df[i].weather = q.weather])

TideFilter(df, q) ==
    IF q.tide = "" THEN df
    ELSE Select(df, [i \in 1..Len(df) |-> df[i].tide = q.tide])

\* The five filters in the order of get_historical_data.
Filtered(df, q) ==
    TideFilter(WeatherFilter(EndDateFilter(StartDateFilter(FishFilter(df, q), q), q), q), q)

\* sort_values('日付', ascending=False): the orders the sort can produce; the
\* order among equal dates is not fixed.
DescendingOrders(df) ==
    {[i \in 1..Len(df) |-> df[p[i]]] :
        p \in {f \in Perms(1..Len(df)) :
                  \A i \in 1..(Len(df) - 1) : df[f[i]].date >= df[f[i + 1]].date}}

\* Variant that pages before sorting: the first rows of the unsorted frame.
Head_Unsorted(sorted, limit) ==
    LET ids == {sorted[i].index : i \in 1..Len(sorted)}
        first == {x \in ids : Cardinality({y \in ids : y < x}) < limit}
    IN Select(sorted, [i \in 1..Len(sorted) |-> sorted[i].index \in first])

\* filtered_df.head(limit) for limit >= 0
HeadRows(sorted, limit) ==
    SubSeq(sorted, 1, IF limit < Len(sorted) THEN limit ELSE Len(sorted))

RECURSIVE SumCatch(_, _)
SumCatch(df, i) == IF i > Len(df) THEN 0 ELSE df[i].catch + SumCatch(df, i + 1)

\* generate_summary(df, original_count); avg_catch in tenths.
GenerateSummary(df, original_count) ==
    IF Len(df) = 0
    THEN [total_records |-> 0, original_records |-> 0, total_catch |-> 0,
          avg_catch |-> 0, max_catch |-> 0, min_catch |-> 0, species |-> {}]
    ELSE LET catches == {df[i].catch : i \in 1..Len(df)}
         IN [total_records |-> Len(df), original_records |-> original_count,
             total_catch |-> SumCatch(df, 1),
             avg_catch |-> RoundDiv(10 * SumCatch(df, 1), Len(df)),
             max_catch |-> CHOOSE c \in catches : \A o \in catches : o <= c,
             min_catch |-> CHOOSE c \in catches : \A o \in catches : c <= o,
             species |-> {df[i].species : i \in 1..Len(df)}]

\* The summary of a response that carries none.
NoSummary == GenerateSummary(<<>>, 0)

\* Variant that counts and summarises the returned page.
HistoricalResponse_OverPage(sh, q, sorted) ==
    LET display_df == HeadRows(sorted, q.limit)
    IN [op |-> "historical", query |-> q, success |-> TRUE,
        records |-> display_df, total_count |-> Len(display_df),
        returned_count |-> Len(display_df),
        summary |-> GenerateSummary(display_df, Len(LoadFishingData(sh).df))]

\* get_historical_data with the order the sort produced.
HistoricalResponse(sh, q, sorted) ==
    LET display_df == HeadRows(sorted, q.limit)
    IN [op |-> "historical", query |-> q, success |-> TRUE,
        records |-> display_df, total_count |-> Len(sorted),
        returned_count |-> Len(display_df),
        summary |-> GenerateSummary(sorted, Len(LoadFishingData(sh).df))]

\* The except branch of get_historical_data.
HistoricalError(q) ==
    [op |-> "historical", query |-> q, success |-> FALSE, records |-> <<>>,
     total_count |-> 0, returned_count |-> 0, summary |-> NoSummary]

\* Ledgers the historical query runs on.  Six complete rows: three days, two
\* species, the weather alternating and the tide changing on the last day.
\* Eight rows that differ from the complete row of day 1 in one cell.
HistoryRow(date, species, catch, weather, tide, temp, visitors) ==
    [Row(date, weather, visitors) EXCEPT
        !.species = species, !.catch = catch, !.tide = tide, !.temp = temp]

CompleteRow(c) ==
    LET d == c \div 2
        s == c % 2
    IN HistoryRow(Val(d), IF s = 0 THEN "aji" ELSE "saba", Val(2 * d + s + 1),
                  IF (d + s) % 2 = 1 THEN "hare" ELSE "ame",
                  IF d <= 1 THEN "oshio" ELSE "koshio", Num(20), Num(100))

DefectiveRows ==
    <<HistoryRow(Null, "aji", Val(3), "hare", "oshio", Num(20), Num(100)),
      HistoryRow(Val(1), "", Val(3), "hare", "oshio", Num(20), Num(100)),
      HistoryRow(Val(1), "aji", Val(-2), "hare", "oshio", Num(20), Num(100)),
      HistoryRow(Val(1), "aji", Null, "hare", "oshio", Num(20), Num(100)),
      HistoryRow(Val(1), "aji", Val(3), "hare", "oshio", NoNum, Num(100)),
      HistoryRow(Val(1), "aji", Val(3), "hare", "oshio", Num(20), NoNum),
      HistoryRow(Val(1), "aji", Val(3), "hare", "oshio", Num(20), Num(2500)),
      HistoryRow(Val(1), "aji", Val(3), "hare", "oshio", Num(20), Minus(5))>>

HistoryRows == [c \in 1..6 |-> CompleteRow(c - 1)] \o DefectiveRows

HistorySheets == SheetsOver(HistoryRows, MaxSheetRows) \cup {NoSheet}

\* Filters asked for: none, each one alone, and three together.
NoFilter ==
    [fish |-> "", start_date |-> Null, end_date |-> Null, weather |-> "", tide |-> ""]

Filters ==
    {NoFilter,
     [NoFilter EXCEPT !.fish = "ALL"],
     [NoFilter EXCEPT !.fish = "aji"],
     [NoFilter EXCEPT !.start_date = Val(1)],
     [NoFilter EXCEPT !.end_date = Val(1)],
     [NoFilter EXCEPT !.weather = "hare"],
     [NoFilter EXCEPT !.tide = "oshio"],
     [NoFilter EXCEPT !.start_date = Val(1), !.weather = "hare", !.tide = "oshio"]}

\* Limits asked for: none of the rows, one row, more rows than the ledger has.
Limits == {0, 1, MaxSheetRows + 1}

Query(f, limit) ==
    [fish |-> f.fish, start_date |-> f.start_date, end_date |-> f.end_date,
     weather |-> f.weather, tide |-> f.tide, limit |-> limit]

\* The queries asked: every filter with every limit.
Queries == {Query(f, limit) : f \in Filters, limit \in Limits}

InitHistory ==
    /\ now = 0
    /\ files = EmptyDir
    /\ pred = NewPredictor("xgboost")
    /\ ret = NoRet
    /\ ready = FALSE
    /\ dirExists = TRUE
    /\ svc = NoService
    /\ resp = NoResp
    /\ job = NoJob
    /\ out = NoOut
    /\ sheet \in HistorySheets

\* GET of the historical records
GetHistoricalData(q) ==
    /\ LET loaded == LoadFishingData(sheet)
       IN IF loaded.ok
          THEN \E sorted \in DescendingOrders(Filtered(loaded.df, q)) :
                  out' = HistoricalResponse(sheet, q, sorted)
          ELSE out' = HistoricalError(q)
    /\ UNCHANGED sheet
    /\ ModelsIdle

(* Weather, tide and season codes on the three paths *)

\* Tide texts, romanised: oshio 大潮, nakashio 中潮, koshio 小潮,
\* nagashio 長潮, wakashio 若潮.

\* weather_mapping of FishingPredictor.map_weather (api/predict.py)
PredictWeatherMapping ==
    ("hare" :> "sunny") @@ ("kaisei" :> "sunny") @@ ("kumori" :> "cloudy")
    @@ ("usugumori" :> "cloudy") @@ ("ame" :> "rainy") @@ ("kosame" :> "rainy")
    @@ ("yuki" :> "snowy")

\* map_weather: weather_mapping.get(weather, 'cloudy')
MapWeather(weather) ==
    IF weather \in DOMAIN PredictWeatherMapping
    THEN PredictWeatherMapping[weather] ELSE "cloudy"

PredictTideMapping ==
    ("oshio" :> "spring") @@ ("nakashio" :> "medium") @@ ("koshio" :> "neap")
    @@ ("nagashio" :> "long") @@ ("wakashio" :> "young")

\* map_tide: tide_mapping.get(tide, 'medium')
MapTide(tide) ==
    IF tide \in DOMAIN PredictTideMapping THEN PredictTideMapping[tide] ELSE "medium"

\* FishingPredictor.get_season
GetSeason(month) ==
    CASE month \in {12, 1, 2} -> "winter"
      [] month \in {3, 4, 5} -> "spring"
      [] month \in {6, 7, 8} -> "summer"
      [] OTHER -> "autumn"

SeasonEncoding == ("spring" :> 0) @@ ("summer" :> 1) @@ ("autumn" :> 2) @@ ("winter" :> 3)
WeatherEncoding == ("sunny" :> 0) @@ ("cloudy" :> 1) @@ ("rainy" :> 2) @@ ("snowy" :> 3)
TideEncoding ==
    ("spring" :> 0) @@ ("medium" :> 1) @@ ("neap" :> 2) @@ ("long" :> 3) @@ ("young" :> 4)

\* dict.get(key, default)
Get(mapping, key, default) == IF key \in DOMAIN mapping THEN mapping[key] ELSE default

\* The codes predict_aji puts in the feature vector.
PredictCodes(weather, tide, month) ==
    [season |-> Get(SeasonEncoding, GetSeason(month), 1),
     weather |-> Get(WeatherEncoding, MapWeather(weather), 1),
     tide |-> Get(TideEncoding, MapTide(tide), 1)]

\* weather_mapping and tide_mapping of the feature builder and of
\* prepare_prediction_data (the same entries in both)
WeatherCodes ==
    ("hare" :> 0) @@ ("sei" :> 0) @@ ("kumori" :> 1) @@ ("don" :> 1)
    @@ ("ame" :> 2) @@ ("yuki" :> 3)

TideCodes ==
    ("oshio" :> 0) @@ ("nakashio" :> 1) @@ ("koshio" :> 2) @@ ("nagashio" :> 3)
    @@ ("wakashio" :> 4)

\* The season code of a month: get_season and season_mapping of the feature
\* builder, the if-chain of prepare_prediction_data.
SeasonCode(month) ==
    CASE month \in {3, 4, 5} -> 0
      [] month \in {6, 7, 8} -> 1
      [] month \in {9, 10, 11} -> 2
      [] OTHER -> 3

\* encode_categorical_features: map, then fillna(1) for weather and tide
FeatureCodes(weather, tide, month) ==
    [season |-> SeasonCode(month),
     weather |-> Get(WeatherCodes, weather, 1),
     tide |-> Get(TideCodes, tide, 1)]

\* prepare_prediction_data: mapping.get(text, 0)
MainCodes(weather, tide, month) ==
    [season |-> SeasonCode(month),
     weather |-> Get(WeatherCodes, weather, 0),
     tide |-> Get(TideCodes, tide, 0)]

\* The feature builder (ml/data_loader.py, ml/feature_engineering.py)

\* _preprocess_fishing_data on one row: a catch cell that is no number
\* becomes 0, the visitor count is the digits of the text or None, and only a
\* row without a date is dropped.
PreprocessRow(r) ==
    IF r.date.null THEN <<>>
    ELSE <<[date |-> r.date.v, species |-> r.species,
            catch |-> IF r.catch.null THEN 0 ELSE r.catch.v,
            weather |-> r.weather, tide |-> r.tide,
            temp |-> ExtractDigits(r.temp),
            visitors |-> ExtractDigits(r.visitors)]>>

RECURSIVE PreprocessFrom(_, _)
PreprocessFrom(rows, i) ==
    IF i > Len(rows) THEN <<>>
    ELSE PreprocessRow(rows[i]) \o PreprocessFrom(rows, i + 1)

\* DataLoader.load_fishing_data: None when the worksheet cannot be read or
\* holds no record.
LoaderFrame(sh) ==
    IF ~sh.reachable \/ sh.rows = <<>> THEN [ok |-> FALSE, df |-> <<>>]
    ELSE [ok |-> TRUE, df |-> PreprocessFrom(sh.rows, 1)]

TargetSpecies == "aji"

\* agg 'first': the first value of the group that is not null.
RECURSIVE FirstVisitors(_, _, _)
FirstVisitors(df, date, i) ==
    IF i > Len(df) THEN Null
    ELSE IF df[i].date = date /\ ~df[i].visitors.null THEN df[i].visitors
    ELSE FirstVisitors(df, date, i + 1)

RECURSIVE FirstTemp(_, _, _)
FirstTemp(df, date, i) ==
    IF i > Len(df) THEN Null
    ELSE IF df[i].date = date /\ ~df[i].temp.null THEN df[i].temp
    ELSE FirstTemp(df, date, i + 1)

\* The first row of a date: its weather and tide texts are never null.
FirstRow(df, date) ==
    df[CHOOSE i \in 1..Len(df) :
          df[i].date = date /\ \A j \in 1..(i - 1) : df[j].date # date]

RECURSIVE SumOfDay(_, _, _)
SumOfDay(df, date, i) ==
    IF i > Len(df) THEN 0
    ELSE (IF df[i].date = date THEN df[i].catch ELSE 0) + SumOfDay(df, date, i + 1)

\* groupby('日付').agg(...): one row per date, in date order.
RECURSIVE DailyFrom(_, _)
DailyFrom(df, dates) ==
    IF dates = {} THEN <<>>
    ELSE LET d == CHOOSE x \in dates : \A y \in dates : x <= y
         IN <<[date |-> d, catch |-> SumOfDay(df, d, 1),
               weather |-> FirstRow(df, d).weather, tide |-> FirstRow(df, d).tide,
               temp |-> FirstTemp(df, d, 1),
               visitors |-> FirstVisitors(df, d, 1)]>>
            \o DailyFrom(df, dates \ {d})

\* Day 0 is Monday 6 January 2025.
MonthOfDay(day) == IF day < 26 THEN 1 ELSE 2

\* X.mean() of a column, in tenths; null when no row has a value.
ColumnMean(daily, col) ==
    LET have == {j \in 1..Len(daily) : ~daily[j][col].null}
        total[S \in SUBSET have] ==
            IF S = {} THEN 0
            ELSE LET j == CHOOSE x \in S : TRUE
                 IN daily[j][col].v + total[S \ {j}]
    IN IF have = {} THEN Null ELSE Val(RoundDiv(10 * total[have], Cardinality(have)))

\* X.fillna(X.mean()) on one cell, in tenths.
FillNa(daily, j, col) ==
    IF daily[j][col].null THEN ColumnMean(daily, col) ELSE Val(10 * daily[j][col].v)

\* X = daily_aji[feature_columns] after the time features, the encodings and
\* fillna; each row keeps the index label of its daily row.
FeatureMatrix(daily) ==
    [j \in 1..Len(daily) |->
        LET codes == FeatureCodes(daily[j].weather, daily[j].tide,
                                  MonthOfDay(daily[j].date))
        IN [index |-> j - 1, month |-> MonthOfDay(daily[j].date),
            season |-> codes.season, weather |-> codes.weather,
            temp |-> FillNa(daily, j, "temp"), tide |-> codes.tide,
            visitors |-> FillNa(daily, j, "visitors")]]

\* y = daily_aji['釣果数']
TargetVector(daily) ==
    [j \in 1..Len(daily) |-> [index |-> j - 1, catch |-> daily[j].catch]]

NoFeatures ==
    [op |-> "features", success |-> FALSE, targets |-> <<>>, X |-> <<>>, y |-> <<>>]

\* Variant that groups the rows of every species.
CreateTargetVariable_AllSpecies(df) ==
    IF Len(df) = 0 THEN NoFeatures
    ELSE LET daily == DailyFrom(df, {df[i].date : i \in 1..Len(df)})
         IN [op |-> "features", success |-> TRUE, targets |-> daily,
             X |-> FeatureMatrix(daily), y |-> TargetVector(daily)]

\* create_features: the daily rows of the target species
\* (create_target_variable), then the feature matrix and the target vector.
CreateTargetVariable(df) ==
    LET aji_df == Select(df, [i \in 1..Len(df) |-> df[i].species = TargetSpecies])
    IN IF Len(aji_df) = 0 THEN NoFeatures
       ELSE LET daily == DailyFrom(aji_df, {aji_df[i].date : i \in 1..Len(aji_df)})
            IN [op |-> "features", success |-> TRUE, targets |-> daily,
                X |-> FeatureMatrix(daily), y |-> TargetVector(daily)]

\* Loading the ledger and building the daily targets
BuildFeatures ==
    /\ LET loaded == LoaderFrame(sheet)
       IN IF loaded.ok THEN out' = CreateTargetVariable(loaded.df)
          ELSE out' = NoFeatures
    /\ UNCHANGED sheet
    /\ ModelsIdle

NextHistory ==
    \/ \E q \in Queries : GetHistoricalData(q)
    \/ BuildFeatures

SpecHistory == InitHistory /\ [][NextHistory]_vars

-----------------------------------------------------------------------------
(* Historical accuracy and the code comparison *)

\* Historical accuracy (api/main.py)

\* Variant that asks for a positive actual catch in the first branch too.
DirectionCorrect_ActualPositive(predicted, actual) ==
    \/ (predicted > actual /\ actual > 0)
    \/ (predicted < actual /\ actual > 0)
    \/ predicted = actual

\* the direction_correct expression of calculate_accuracy_metrics
DirectionCorrect(predicted, actual) ==
    \/ (predicted > actual /\ predicted > 0)
    \/ (predicted < actual /\ actual > 0)
    \/ predicted = actual

Abs(x) == IF x < 0 THEN -x ELSE x

\* calculate_accuracy_metrics; error_percent in tenths of a percent.
CalculateAccuracyMetrics(predicted, actual) ==
    LET error_amount == Abs(predicted - actual)
        error_percent ==
            IF actual = 0 THEN (IF predicted > 0 THEN 1000 ELSE 0)
            ELSE RoundDiv(1000 * error_amount, actual)
        accuracy_grade ==
            IF actual = 0 THEN (IF predicted > 0 THEN "poor" ELSE "perfect")
            ELSE IF 100 * error_amount <= 15 * actual THEN "excellent"
            ELSE IF 100 * error_amount <= 25 * actual THEN "good"
            ELSE IF 100 * error_amount <= 40 * actual THEN "fair"
            ELSE "poor"
    IN [op |-> "accuracy", predicted |-> predicted, actual |-> actual,
        error_amount |-> error_amount, error_percent |-> error_percent,
        accuracy_grade |-> accuracy_grade,
        direction_correct |-> DirectionCorrect(predicted, actual)]

\* Weather texts: those of the three tables, a word none of them holds and
\* the blank cell.  Tide texts likewise.
WeatherTexts == DOMAIN WeatherMapping \cup DOMAIN WeatherCodes \cup {"kiri", ""}
TideTexts == DOMAIN TideCodes \cup {"hikishio", ""}
Months == 1..12

\* Weather texts of prediction requests and of ledger rows at training time.
RequestWeathers ==
    {"hare", "sei", "kumori", "ame", "yuki", "kaisei", "kosame",
     "kumori nochi hare", "kiri", ""}

InitCodes ==
    /\ now = 0
    /\ files = EmptyDir
    /\ pred = NewPredictor("xgboost")
    /\ ret = NoRet
    /\ ready = FALSE
    /\ dirExists = TRUE
    /\ svc = NoService
    /\ resp = NoResp
    /\ job = NoJob
    /\ out = NoOut
    /\ sheet = NoSheet

\* One weather text normalized by the visitor statistics, by map_weather and
\* by the feature builder.
NormalizeWeather(w) ==
    /\ out' = [op |-> "weather", text |-> w, visitor |-> WeatherEnglish(w),
               predict |-> MapWeather(w), feature |-> Get(WeatherCodes, w, 1)]
    /\ UNCHANGED sheet
    /\ ModelsIdle

\* One weather, tide and month encoded at training time and by the two
\* prediction paths.
EncodeRequest(weather, tide, month) ==
    /\ out' = [op |-> "encode", weather |-> weather, tide |-> tide, month |-> month,
               training |-> FeatureCodes(weather, tide, month),
               main |-> MainCodes(weather, tide, month),
               predict |-> PredictCodes(weather, tide, month)]
    /\ UNCHANGED sheet
    /\ ModelsIdle

\* One comparison of a predicted with an actual catch.
CompareWithActual(predicted, actual) ==
    /\ out' = CalculateAccuracyMetrics(predicted, actual)
    /\ UNCHANGED sheet
    /\ ModelsIdle

NextCodes ==
    \/ \E w \in WeatherTexts : NormalizeWeather(w)
    \/ \E w \in RequestWeathers, t \in TideTexts, m \in Months : EncodeRequest(w, t, m)
    \/ \E p \in 0..MaxCatch, a \in 0..MaxCatch : CompareWithActual(p, a)

SpecCodes == InitCodes /\ [][NextCodes]_vars

-----------------------------------------------------------------------------
(* The training pipeline (scripts/train.py) *)

\* The --model argument and the ways step 1 can end.
ModelArgs == {"rf", "xgb", "auto", "other"}
ScrapingOutcomes == {"uploaded", "no_data", "failed", "raised"}

StepCount == 7
SuccessThreshold == 6

\* The pipeline before run_pipeline: nothing ran, success_count = 0.
NewPipeline(model_type, enable_scraping) ==
    [op |-> "pipeline", model_type |-> model_type,
     enable_scraping |-> enable_scraping, step |-> 1, broken |-> FALSE,
     success_count |-> 0, ran |-> <<>>, returned |-> <<>>,
     scraping |-> "none", loaded |-> FALSE, features |-> NoFeatures,
     result |-> "running"]

\* Variant of the loop body without the break.
LoopBody_NoBreak(o, i, ok) ==
    [o EXCEPT !.ran = Append(@, i), !.returned = Append(@, ok),
              !.success_count = IF ok \/ i = StepCount THEN @ + 1 ELSE @,
              !.step = i + 1]

\* The body of the for loop of run_pipeline for step i that returned ok:
\* count it and go on, or break; a failed step 7 is counted as well.
LoopBody(o, i, ok) ==
    [o EXCEPT !.ran = Append(@, i), !.returned = Append(@, ok),
              !.success_count = IF ok \/ i = StepCount THEN @ + 1 ELSE @,
              !.step = IF ok \/ i = StepCount THEN i + 1 ELSE @,
              !.broken = ~(ok \/ i = StepCount)]

Running(i) ==
    /\ out.op = "pipeline"
    /\ out.result = "running"
    /\ ~out.broken
    /\ out.step = i

ManagerKept == UNCHANGED <<now, files, pred, ret, ready, dirExists, svc, resp, job>>

\* step1_scraping: returns True when scraping is disabled, whatever
\* run_scraping returned, and when it raised; the ledger is what the
\* scraping left.
Step1Scraping(outcome, ledger) ==
    /\ Running(1)
    /\ IF out.enable_scraping
       THEN /\ out' = LoopBody([out EXCEPT !.scraping = outcome], 1, TRUE)
            /\ sheet' = ledger
       ELSE /\ out' = LoopBody([out EXCEPT !.scraping = "skipped"], 1, TRUE)
            /\ sheet' = ledger
    /\ ManagerKept

\* step2_data_loading: False when load_all_data gives no fishing data.
Step2DataLoading ==
    /\ Running(2)
    /\ LET loaded == LoaderFrame(sheet)
       IN out' = LoopBody([out EXCEPT !.loaded = loaded.ok], 2, loaded.ok)
    /\ UNCHANGED sheet
    /\ ManagerKept

\* step3_feature_engineering: False when create_features gives no X or
\* raises.
Step3FeatureEngineering ==
    /\ Running(3)
    /\ LET built == IF out.loaded THEN CreateTargetVariable(LoaderFrame(sheet).df)
                    ELSE NoFeatures
       IN out' = LoopBody([out EXCEPT !.features = built], 3, built.success)
    /\ UNCHANGED sheet
    /\ ManagerKept

\* step4_model_training: the model kind of the argument (asked for when it
\* is auto), a new predictor and fit(X, y); False for another argument and
\* when fit raises.
Step4ModelTraining(selected_type) ==
    /\ Running(4)
    /\ out.model_type = "rf" => selected_type = "random_forest"
    /\ out.model_type = "xgb" => selected_type = "xgboost"
    /\ IF out.model_type = "other"
       THEN /\ out' = LoopBody(out, 4, FALSE)
            /\ UNCHANGED <<pred, ready, ret>>
       ELSE IF ~out.features.success
       THEN /\ out' = LoopBody(out, 4, FALSE)
            /\ pred' = NewPredictor(selected_type)
            /\ UNCHANGED <<ready, ret>>
       ELSE LET r == FitResult(NewPredictor(selected_type), Len(out.features.X),
                               20, StdCols)
            IN /\ out' = LoopBody(out, 4, r.ok)
               /\ pred' = r.pred
               /\ ready' = (ready \/ r.ok)
               /\ ret' = [MkRet("fit", r.ok, IF r.ok THEN "" ELSE "FitError", NoPath)
                            EXCEPT !.rows = Len(out.features.X), !.split = 20]
    /\ UNCHANGED <<now, files, dirExists, svc, resp, job, sheet>>

\* step5_model_saving: save_model() with the default filename and its
\* cleanup; False when save_model raises.
Step5ModelSaving ==
    /\ Running(5)
    /\ IF ~pred.is_trained
       THEN /\ out' = LoopBody(out, 5, FALSE)
            /\ ret' = MkRet("save", FALSE, "NotTrained", NoPath)
            /\ UNCHANGED files
       ELSE LET path == DefaultName(pred.model_type, now)
                written == WriteFile(files, path, Bundle(pred), now)
            IN \E listing \in Perms(GlobKind(written, pred.model_type)) :
                   LET c == CleanupResult(written, listing, KeepCount)
                   IN /\ files' = c.files
                      /\ ret' = [MkRet("save", TRUE, "", path)
                                   EXCEPT !.kept = c.kept, !.deleted = c.deleted]
                      /\ out' = LoopBody(out, 5, TRUE)
    /\ UNCHANGED <<now, pred, ready, dirExists, svc, resp, job, sheet>>

\* step6_sample_prediction: predict_single on the August sample; False when
\* it raises.
Step6SamplePrediction ==
    /\ Running(6)
    /\ ret' = PredictSingleResult(pred, 1)
    /\ out' = LoopBody(out, 6, ret'.ok)
    /\ UNCHANGED <<now, files, pred, ready, dirExists, svc, resp, job, sheet>>

\* step7_model_management: lists the models; returns True also when the
\* listing raises.
Step7ModelManagement(raised) ==
    /\ Running(7)
    /\ out' = LoopBody(out, 7, TRUE)
    /\ UNCHANGED sheet
    /\ ManagerKept

\* The end of run_pipeline: success when success_count >= 6.
ReportResult ==
    /\ out.op = "pipeline"
    /\ out.result = "running"
    /\ out.broken \/ out.step > StepCount
    /\ out' = [out EXCEPT !.result = IF out.success_count >= SuccessThreshold
                                     THEN "success" ELSE "failure"]
    /\ UNCHANGED sheet
    /\ ManagerKept

\* The model directory before the run: empty, or holding two artifacts.
PipelineDirs ==
    {EmptyDir,
     WriteFile(WriteFile(EmptyDir, DefaultName("xgboost", 0), SavedBundle, 0),
               CustomName("xgboost"), SavedBundle, 0)}

InitPipeline ==
    /\ now = 1
    /\ files \in PipelineDirs
    /\ pred = NewPredictor("xgboost")
    /\ ret = NoRet
    /\ ready = FALSE
    /\ dirExists = TRUE
    /\ svc = NoService
    /\ resp = NoResp
    /\ job = NoJob
    /\ sheet = NoSheet
    /\ out \in {NewPipeline(m, e) : m \in ModelArgs, e \in BOOLEAN}

NextPipeline ==
    \/ \E outcome \in ScrapingOutcomes, ledger \in HistorySheets :
          Step1Scraping(outcome, ledger)
    \/ Step2DataLoading
    \/ Step3FeatureEngineering
    \/ \E selected_type \in Kinds : Step4ModelTraining(selected_type)
    \/ Step5ModelSaving
    \/ Step6SamplePrediction
    \/ \E raised \in BOOLEAN : Step7ModelManagement(raised)
    \/ ReportResult

SpecPipeline == InitPipeline /\ [][NextPipeline]_vars

-----------------------------------------------------------------------------
(* Retention *)

\* The timestamp of an artifact: the one in its filename when the name follows
\* the convention, the file's time otherwise.
Timestamp(name, ctime) == IF name.parsable THEN name.stamp ELSE ctime

SaveReturned == ret.op = "save" /\ ret.ok

C2_KeepsMostRecent ==
    (SaveReturned /\ ret.deleted # {}) =>
        /\ Cardinality(ret.kept) = 2
        /\ ret.kept \subseteq DOMAIN files
        /\ \A d \in ret.deleted : d.name \notin DOMAIN files
        /\ \A d \in ret.deleted, k \in ret.kept :
              Timestamp(d.name, d.ctime) <= Timestamp(k, files[k].ctime)

\* A cleanup that deleted a strictly older artifact and kept one whose
\* timestamp comes from the file time.
C2_Witness ==
    /\ SaveReturned
    /\ \E d \in ret.deleted, k \in ret.kept :
          /\ ~k.parsable
          /\ Timestamp(d.name, d.ctime) < Timestamp(k, files[k].ctime)

-----------------------------------------------------------------------------
(* Service start *)

\* C3: when loading a persisted model fails at service start (missing
\* directory, no artifact, corrupt or invalid artifact), the service has
\* built a fallback model and answers every prediction request with a
\* prediction.
C3_FallbackAfterFailedLoad ==
    (svc.started /\ svc.load_failed /\ resp.kind # "none") =>
        (svc.fallback /\ svc.has_model /\ resp.kind = "prediction")

\* A file holds a saved, trained model.
IsSavedModel(f) ==
    f.content.form = "dict" /\ f.content.is_trained /\ f.content.model.cls = "regressor"

\* C4: the artifact a service loaded at start carries the latest training
\* timestamp among all saved models present in the model directory.
C4_LoadsLatestArtifact ==
    (svc.started /\ svc.loaded # NoPath /\ IsSavedModel(files[svc.loaded])) =>
        \A nm \in DOMAIN files :
            IsSavedModel(files[nm]) =>
                Timestamp(nm, files[nm].ctime)
                    <= Timestamp(svc.loaded, files[svc.loaded].ctime)

\* C6: every value predict() returns is >= 0, and the catch_count of a
\* prediction response is never negative.
C6_NonNegativePredictions ==
    resp.kind = "prediction" =>
        /\ resp.catch_count >= 0
        /\ resp.via = "main" => resp.value >= 0

\* A response from the model manager whose raw model output was negative.
C6_Witness ==
    /\ resp.kind = "prediction"
    /\ resp.via = "main"
    /\ \E x \in Conditions :
          /\ RawPredict(svc.predictor.model, x, StdCols) < 0
          /\ resp = MainResponse(svc, x)

-----------------------------------------------------------------------------
(* Model manager *)

IsPrediction == ret.op \in {"predict", "predict_single"}

\* C5: predict() and predict_single() on a predictor that has had no
\* successful fit() or load_model() fail with the not-trained error.
C5_UntrainedPredictFails ==
    (IsPrediction /\ ~ready) => (~ret.ok /\ ret.err = "NotTrained")

\* C7: loading the path a save returned succeeds and restores the saved
\* predictor: model, model type, schema, training history, trained flag, and
\* with them every prediction.
C7_SaveLoadRoundTrip ==
    [][(SaveReturned /\ ret'.op = "load" /\ ret'.path = ret.path) =>
           (ret'.ok /\ pred' = pred)]_vars

\* C8: load_model() reports failure when the file is missing, cannot be
\* deserialized, or its bundle has no model able to predict.
C8_LoadRejectsUnusable ==
    ret.op = "load" =>
        ((\/ ret.path \notin DOMAIN files
          \/ files[ret.path].content.form # "dict"
          \/ files[ret.path].content.model.cls # "regressor") => ~ret.ok)

\* C9: whenever a vector reaches the model, from predict() on named columns
\* or from predict_single(), its order is the stored feature schema.
C9_SchemaOrder ==
    (/\ ret.op = "predict_single" \/ (ret.op = "predict" /\ ret.named)
     /\ ret.handed # NoCols)
        => ret.handed = pred.feature_columns

\* C10: a fit on n rows with validation split f trains on the first
\* floor(n * (1 - f)) rows and validates on the rest.
C10_ChronologicalSplit ==
    (ret.op = "fit" /\ ret.ok) =>
        LET k == (ret.rows * (100 - ret.split)) \div 100
        IN /\ pred.training_history.train_size = k
           /\ pred.training_history.val_size = ret.rows - k

-----------------------------------------------------------------------------
(* Cleanup next to another process *)

\* C11: when another process removes an artifact of the active kind between
\* the cleanup's listing and its deletions, cleanup_old_models and the
\* save_model around it still complete without an error.
C11_CleanupSurvivesRemoval ==
    ret.op = "save" => ret.ok

-----------------------------------------------------------------------------
(* Visitor statistics *)

AveragesComputed == out.op = "averages" /\ out.status = "success"

\* The patterns of one weather that have observations.
Observed(weather) ==
    {k \in 1..Len(Cells) : Cells[k].weather = weather /\ out.averages[k].count >= 1}

\* C12: the estimate of every pattern without records is base * weekday
\* factor * weather factor, where base is the average of the reported means
\* of all observed patterns of the same weather, over all seven weekdays, and
\* the global baseline only when that weather has no observed pattern.
C12_EstimateFromSameWeather ==
    AveragesComputed =>
        \A k \in 1..Len(Cells) :
            out.averages[k].count = 0 =>
                LET w == Cells[k].weather
                    d == Cells[k].weekday
                IN out.averages[k].average =
                      IF Observed(w) # {}
                      THEN Estimated(SumAverages(out.averages, Observed(w)),
                                     Cardinality(Observed(w)), w, d)
                      ELSE Estimated(BaseAverage, 1, w, d)

\* No record survives the cleaning, or the ledger cannot be read.
NoData == FetchLatestData(sheet) = <<>>

\* C13: when no data can be obtained, the visitor averages and the visitor
\* estimate both return an error / no-data result, and no estimate is a
\* number taken from the global default.
C13_NoDataIsReported ==
    NoData =>
        /\ out.op = "averages" => (out.status = "error" /\ out.averages = <<>>)
        /\ out.op = "estimate" => (out.error /\ out.estimated_visitors.null)

\* The rows of the ledger that are valid: a date, a visitor number, and that
\* number within 0..2000.
ValidRecords ==
    {i \in 1..Len(sheet.rows) :
        /\ ~sheet.rows[i].date.null
        /\ sheet.rows[i].visitors.has
        /\ ~sheet.rows[i].visitors.neg
        /\ sheet.rows[i].visitors.n <= 2000}

\* C14: in a successful computation the sample counts of the observed
\* patterns add up to total_records, the number of valid records; estimated
\* patterns count 0.
C14_CountsAddUp ==
    AveragesComputed =>
        LET counts == [k \in 1..Len(Cells) |->
                          [average |-> out.averages[k].count]]
        IN /\ SumAverages(counts, 1..Len(Cells)) = out.total_records
           /\ out.total_records = Cardinality(ValidRecords)
           /\ \A k \in 1..Len(Cells) :
                 out.averages[k].estimated <=> out.averages[k].count = 0

\* Two valid records, one of them with a weather word outside the mapping,
\* next to a record that the cleaning drops.
C14_Witness ==
    /\ AveragesComputed
    /\ out.total_records = 2
    /\ \E i \in 1..Len(sheet.rows) : sheet.rows[i].weather = "kiri" /\ i \in ValidRecords

-----------------------------------------------------------------------------
(* Historical query *)

QueryAnswered == out.op = "historical" /\ out.success

\* The filtered set of the answered query, recomputed from the ledger.
FilteredSet == Filtered(LoadFishingData(sheet).df, out.query)

Returned == {out.records[i].index : i \in 1..Len(out.records)}

\* C15: for a limit >= 0 the returned records are the first
\* min(limit, total_count) records of the filtered set in date-descending
\* order: the returned dates do not increase, returned_count is
\* min(limit, total_count), and no record left out is more recent than a
\* returned one.
C15_NewestPage ==
    (QueryAnswered /\ out.query.limit >= 0) =>
        /\ \A i \in 1..(Len(out.records) - 1) :
              out.records[i].date >= out.records[i + 1].date
        /\ out.returned_count = Len(out.records)
        /\ out.returned_count =
              (IF out.query.limit < out.total_count
               THEN out.query.limit ELSE out.total_count)
        /\ \A i \in 1..Len(FilteredSet) :
              FilteredSet[i].index \notin Returned =>
                  \A j \in 1..Len(out.records) :
                      FilteredSet[i].date <= out.records[j].date
        /\ \A j \in 1..Len(out.records) :
              \E i \in 1..Len(FilteredSet) : FilteredSet[i] = out.records[j]

\* A page of one record cut from two records of different dates, the older
\* one first in the ledger.
C15_Witness ==
    /\ QueryAnswered
    /\ out.query.limit = 1
    /\ out.total_count = 2
    /\ out.returned_count = 1
    /\ FilteredSet[1].date < FilteredSet[2].date

\* The catch counts of the filtered set, by index label.
FilteredCatch == [i \in 1..Len(FilteredSet) |-> FilteredSet[i].catch]

\* C16: with the data and the filters fixed, total_count and every summary
\* statistic are the same for every limit: they are those of the whole
\* filtered set, not of the returned page.
C16_TotalsIgnoreLimit ==
    QueryAnswered =>
        /\ out.total_count = Len(FilteredSet)
        /\ out.summary.total_records = Len(FilteredSet)
        /\ out.summary.total_catch = SumCatch(FilteredSet, 1)
        /\ \A i \in 1..Len(FilteredSet) :
              /\ FilteredCatch[i] <= out.summary.max_catch
              /\ FilteredCatch[i] >= out.summary.min_catch
              /\ FilteredSet[i].species \in out.summary.species
        /\ \A limit \in Limits :
              \A sorted \in DescendingOrders(FilteredSet) :
                  LET other == HistoricalResponse(
                                   sheet, [out.query EXCEPT !.limit = limit], sorted)
                  IN /\ other.total_count = out.total_count
                     /\ other.summary = out.summary

\* A page that is shorter than the filtered set, whose records differ in
\* catch count.
C16_Witness ==
    /\ QueryAnswered
    /\ out.returned_count < out.total_count
    /\ out.summary.min_catch < out.summary.max_catch

\* The normalized records of the ledger.
Normalized == LoadFishingData(sheet).df

\* r satisfies every filter that query q supplies.
Satisfies(r, q) ==
    /\ (q.fish = "" \/ q.fish \in {"all", "ALL", "All"} \/ r.species = q.fish)
    /\ (q.start_date.null \/ q.start_date.v <= r.date)
    /\ (q.end_date.null \/ r.date <= q.end_date.v)
    /\ (q.weather = "" \/ r.weather = q.weather)
    /\ (q.tide = "" \/ r.tide = q.tide)

Satisfying ==
    {Normalized[i] : i \in {j \in 1..Len(Normalized) : Satisfies(Normalized[j], out.query)}}

\* C17: the filtered set is the set of normalized records that satisfy every
\* supplied filter (species equality, start <= date <= end inclusive, weather
\* equality, tide equality); an omitted filter, or species "all" in any
\* letter case, does not constrain; and applying the filters in another
\* order gives the same set.
C17_FiltersConjoin ==
    QueryAnswered =>
        /\ out.total_count = Cardinality(Satisfying)
        /\ \A j \in 1..Len(out.records) : out.records[j] \in Satisfying
        /\ out.query.limit >= out.total_count =>
              {out.records[j] : j \in 1..Len(out.records)} = Satisfying
        /\ FishFilter(StartDateFilter(EndDateFilter(WeatherFilter(
                TideFilter(Normalized, out.query), out.query), out.query),
                out.query), out.query) = FilteredSet

\* A query with three filters that keeps one record and excludes another,
\* the kept record lying on the start date.
C17_Witness ==
    /\ QueryAnswered
    /\ ~out.query.start_date.null
    /\ out.query.weather # ""
    /\ out.query.tide # ""
    /\ out.returned_count = 1
    /\ out.records[1].date = out.query.start_date.v
    /\ Len(Normalized) = 2

\* Row i of the ledger has a date, a species and a catch count >= 0.
ValidRow(i) ==
    /\ ~sheet.rows[i].date.null
    /\ sheet.rows[i].species # ""
    /\ ~sheet.rows[i].catch.null
    /\ sheet.rows[i].catch.v >= 0

\* C18: a row whose temperature text or visitor text holds no number does
\* not make the load or the query fail and does not cause another row to be
\* dropped: every valid row is returned, with the field null where its text
\* holds no number.
C18_MissingNumberIsNull ==
    (out.op = "historical" /\ sheet.reachable /\ sheet.rows # <<>>) =>
        /\ out.success
        /\ out.query = Query(NoFilter, MaxSheetRows + 1) =>
              \A i \in 1..Len(sheet.rows) :
                  ValidRow(i) =>
                      \E j \in 1..Len(out.records) :
                          /\ out.records[j].index = i
                          /\ ~sheet.rows[i].temp.has => out.records[j].temp.null
                          /\ ~sheet.rows[i].visitors.has =>
                                out.records[j].visitors.null

-----------------------------------------------------------------------------
(* Normalization policy *)

FeaturesBuilt == out.op = "features" /\ out.success

\* The catch counts of the valid rows of the target species on a date.
RECURSIVE ValidCatchOfDay(_, _)
ValidCatchOfDay(date, i) ==
    IF i > Len(sheet.rows) THEN 0
    ELSE (IF ValidRow(i) /\ sheet.rows[i].date.v = date
             /\ sheet.rows[i].species = TargetSpecies
          THEN sheet.rows[i].catch.v ELSE 0) + ValidCatchOfDay(date, i + 1)

\* C19: every normalized record that reaches a consumer has catch count
\* >= 0, and a row with a negative catch count, no date or no species
\* contributes to no output: the historical records and summary come from
\* valid rows only, and each daily target is the sum over the valid rows of
\* its date.
C19_OnlyValidRowsReachConsumers ==
    /\ QueryAnswered =>
          /\ \A j \in 1..Len(out.records) :
                out.records[j].catch >= 0 /\ ValidRow(out.records[j].index)
          /\ out.summary.min_catch >= 0
          /\ "" \notin out.summary.species
    /\ FeaturesBuilt =>
          \A j \in 1..Len(out.targets) :
              /\ out.targets[j].catch >= 0
              /\ out.targets[j].catch = ValidCatchOfDay(out.targets[j].date, 1)

InVisitorRange(v) == v.null \/ (VisitorFloor <= v.v /\ v.v <= VisitorCeiling)

\* C20: on the historical and the feature-building path the visitor count
\* of every normalized record is null or within [0, 2000], so that no value
\* outside that range is returned or used as a feature value.
C20_VisitorsNullOrInRange ==
    /\ QueryAnswered =>
          \A j \in 1..Len(out.records) : InVisitorRange(out.records[j].visitors)
    /\ FeaturesBuilt =>
          \A j \in 1..Len(out.targets) : InVisitorRange(out.targets[j].visitors)

-----------------------------------------------------------------------------
(* Weather normalization and codes *)

Categories == {"sunny", "cloudy", "rainy", "snowy"}

\* C21: the compound phrase "cloudy-then-sunny" (曇りのち晴れ) is mapped by
\* the weather lookup to the category cloudy, on each path.
C21_CloudyThenSunny ==
    (out.op = "weather" /\ out.text = "kumori nochi hare") =>
        /\ out.visitor = "cloudy"
        /\ out.predict = "cloudy"
        /\ out.feature = WeatherEncoding["cloudy"]

\* C22: weather normalization is total: every text gets exactly one of the
\* four categories, a text of the lookup table gets its entry and every
\* other text gets cloudy.
C22_WeatherTotal ==
    out.op = "weather" =>
        /\ out.visitor \in Categories
        /\ out.predict \in Categories
        /\ out.text \in DOMAIN WeatherMapping => out.visitor = WeatherMapping[out.text]
        /\ out.text \notin DOMAIN WeatherMapping => out.visitor = "cloudy"
        /\ out.text \in DOMAIN PredictWeatherMapping =>
              out.predict = PredictWeatherMapping[out.text]
        /\ out.text \notin DOMAIN PredictWeatherMapping => out.predict = "cloudy"

\* A text that neither table holds has been normalized.
C22_Witness ==
    /\ out.op = "weather"
    /\ out.text \notin DOMAIN WeatherMapping
    /\ out.text \notin DOMAIN PredictWeatherMapping
    /\ out.text # ""
    /\ out.visitor = "cloudy"

\* C26: for non-negative predicted and actual, direction_correct is true.
C26_DirectionAlwaysCorrect ==
    out.op = "accuracy" => out.direction_correct

\* A prediction above an actual catch of none: as wrong as a direction gets.
C26_Witness ==
    /\ out.op = "accuracy"
    /\ out.predicted > 0
    /\ out.actual = 0
    /\ out.accuracy_grade = "poor"

\* C27: the codes a prediction path computes for a weather, a tide and a
\* month are the codes the feature builder assigns at training time,
\* default codes included.
C27_SameCodesAsTraining ==
    out.op = "encode" =>
        /\ out.main = out.training
        /\ out.predict = out.training

-----------------------------------------------------------------------------
(* Feature builder *)

\* The rows of the ledger with a date and the target species.
TargetRows ==
    {i \in 1..Len(sheet.rows) :
        ~sheet.rows[i].date.null /\ sheet.rows[i].species = TargetSpecies}

RECURSIVE CatchOfDay(_, _)
CatchOfDay(date, i) ==
    IF i > Len(sheet.rows) THEN 0
    ELSE (IF i \in TargetRows /\ sheet.rows[i].date.v = date
             /\ ~sheet.rows[i].catch.null
          THEN sheet.rows[i].catch.v ELSE 0) + CatchOfDay(date, i + 1)

\* C23: the feature builder gives one row for each date on which the target
\* species has a record and no other row; the target of the row is the sum
\* of the catch counts of the target-species records of that date; the
\* feature matrix and the target vector have the same length and the same
\* row order, strictly ascending by date.
C23_DailyTargets ==
    FeaturesBuilt =>
        /\ {out.targets[j].date : j \in 1..Len(out.targets)}
              = {sheet.rows[i].date.v : i \in TargetRows}
        /\ \A j \in 1..(Len(out.targets) - 1) :
              out.targets[j].date < out.targets[j + 1].date
        /\ Len(out.X) = Len(out.targets) /\ Len(out.y) = Len(out.targets)
        /\ \A j \in 1..Len(out.targets) :
              /\ out.y[j].catch = CatchOfDay(out.targets[j].date, 1)
              /\ out.X[j].index = out.y[j].index
              /\ out.X[j].month = MonthOfDay(out.targets[j].date)

\* Two records of the target species on one day, summed into one row.
C23_Witness ==
    /\ FeaturesBuilt
    /\ Len(out.y) = 1
    /\ Cardinality(TargetRows) = 2
    /\ sheet.rows[1].catch.v > 0
    /\ out.y[1].catch > sheet.rows[1].catch.v

-----------------------------------------------------------------------------
(* Retention across model kinds *)

\* The files whose names carry another kind than the predictor's.
OtherKind(fs) == {nm \in DOMAIN fs : nm.kind # pred.model_type}

\* C24: a save and its cleanup by a predictor of one kind leave the
\* artifacts of the other kind as they are: none is deleted or rewritten,
\* none is among the files the cleanup kept or deleted, and the number of
\* artifacts of the predictor's own kind after the save is what the limit
\* gives for that kind alone.
C24_OtherKindUntouched ==
    [][(ret'.op = "save" /\ ret'.ok /\ pred' = pred) =>
          /\ OtherKind(files') = OtherKind(files)
          /\ \A nm \in OtherKind(files) : files'[nm] = files[nm]
          /\ \A nm \in ret'.kept : nm.kind = pred.model_type
          /\ \A d \in ret'.deleted : d.name.kind = pred.model_type
          /\ (files' # files =>
                LET own == GlobKind(files, pred.model_type) \cup {ret'.path}
                IN Cardinality(GlobKind(files', pred.model_type)) =
                      (IF Cardinality(own) < KeepCount THEN Cardinality(own)
                       ELSE KeepCount))]_vars

\* A save whose cleanup deleted a file while two artifacts of the other
\* kind were in the directory.
C24_Witness ==
    /\ ret.op = "save"
    /\ ret.ok
    /\ ret.deleted # {}
    /\ Cardinality(OtherKind(files)) = KeepCount

-----------------------------------------------------------------------------
(* Lifecycle *)

\* C25: save() on a predictor that has had no successful fit() or load()
\* fails, writes no artifact and deletes none.
C25_SaveNeedsTrained ==
    [][(~ready /\ ret'.op = "save" /\ ret' # ret) =>
          (~ret'.ok /\ files' = files)]_vars

\* C29: a load_model that returns the failure signal leaves the model
\* object, the model kind, the feature schema, the training record and the
\* trained flag as they were before the call.
C29_FailedLoadKeepsState ==
    [][(ret'.op = "load" /\ ~ret'.ok) => pred' = pred]_vars

\* C30: when save_model returns a path, a file exists at that path.
C30_SavedFileExists ==
    (ret.op = "save" /\ ret.ok) => ret.path \in DOMAIN files

-----------------------------------------------------------------------------
(* Training pipeline *)

StepReturned(i) == i <= Len(out.returned) /\ out.returned[i]

Finished == out.op = "pipeline" /\ out.result # "running"

\* C28: run_pipeline runs its seven steps in the fixed order; a step runs
\* only when every earlier step returned success, so nothing is saved after
\* a failed data load, feature build or training; a scraping error never
\* aborts the run; and the run reports success exactly when steps 1 to 6
\* all succeeded.
C28_PipelineOrderAndResult ==
    out.op = "pipeline" =>
        /\ \A i \in 1..Len(out.ran) :
               /\ out.ran[i] = i
               /\ \A j \in 1..(i - 1) : out.returned[j]
        /\ files \notin PipelineDirs =>
               StepReturned(2) /\ StepReturned(3) /\ StepReturned(4)
        /\ Len(out.ran) >= 1 => out.returned[1]
        /\ Finished =>
               (out.result = "success" <=> \A i \in 1..6 : StepReturned(i))

\* A run whose scraping raised and that still finished with success, the
\* model saved.
C28_Witness ==
    /\ Finished
    /\ out.scraping = "raised"
    /\ out.result = "success"
    /\ Len(out.ran) = StepCount
    /\ files \notin PipelineDirs

\* A run that stopped at a failed training and reported failure.
C28_WitnessBroken ==
    /\ Finished
    /\ out.result = "failure"
    /\ Len(out.ran) = 4
    /\ ~out.returned[4]






====
